---------------------------- MODULE Spec2Model ----------------------------
(***************************************************************************)
(* Predictive-maintenance frontend: the Chatbot component (conversation,   *)
(* work-order draft, approval, staged image) and the Dashboard component   *)
(* (polling of summary / charts / work orders).                            *)
(*                                                                         *)
(* React state is modelled by one variable per useState cell.  Handlers    *)
(* run to their first await atomically (JavaScript is single threaded);    *)
(* each await is a suspension point, modelled by a request in flight and a *)
(* continuation action that runs when the reply is delivered.  Handlers    *)
(* are reachable only through the rendered controls, so every user action  *)
(* carries the control's rendering condition and its `disabled` attribute. *)
(***************************************************************************)
EXTENDS Integers, Sequences, FiniteSets, TLC

---------------------------------------------------------------------------
(* Bounds of the model *)

\* number of sendMessage / handleApprove invocations that issue a request
MaxCalls == 3
\* number of resetChat invocations
MaxResets == 1
\* number of files selected for upload
MaxUploads == 1
\* number of fetchCharts invocations
MaxTicks == 2
\* number of fetchSummary and fetchWorkOrders invocations together
MaxPolls == 3
\* the longest array in a reply to a chart request
MaxPoints == 2
\* number of steps of the clock
MaxClockSteps == 1

---------------------------------------------------------------------------
(* Chatbot.jsx: values *)

\* Text is a sequence of characters; " " is the only whitespace character used.
Chars == {" ", "a"}
Texts == {<<>>, <<" ">>, <<" ", "a">>}

\* "What is the current status of the machine?" / "Draft a work order for high vibration."
Suggestions == {<<"a">>}

RECURSIVE TrimLeft(_)
TrimLeft(s) == IF s = <<>> THEN <<>>
               ELSE IF Head(s) = " " THEN TrimLeft(Tail(s)) ELSE s

RECURSIVE TrimRight(_)
TrimRight(s) == IF s = <<>> THEN <<>>
                ELSE IF s[Len(s)] = " " THEN TrimRight(SubSeq(s, 1, Len(s) - 1)) ELSE s

\* String.prototype.trim
Trim(s) == TrimRight(TrimLeft(s))

\* JavaScript truthiness of a string: the empty string is falsy
Truthy(s) == s # <<>>

DefaultPrompt == <<"Please analyze this image.">>
ErrorText == <<"Error connecting to server.">>
SuccessText(id) == <<"Success! Work Order ", id, " has been saved to the database.">>

NoDraft == ""
Drafts == {"d1", "d2"}
WorkOrderIds == {"WO-1", "WO-2"}
ResponseTexts == {<<"r">>}

Files == {"f1"}
NoFile == "null"

\* A JavaScript number that is not whole is kept as a binary fraction: bits is its
\* significand, most significant bit first, and the value is bits / 2^scale.
\* Precision is the length of the significand of a double.
Precision == 53

\* 2^k
RECURSIVE Pow2(_)
Pow2(k) == IF k = 0 THEN 1 ELSE 2 * Pow2(k - 1)

\* the number of bits of a whole number below 2^16, and its bits
BitLength(n) == CHOOSE k \in 0..16 : Pow2(k) > n /\ (k = 0 \/ Pow2(k - 1) <= n)
BitsOf(n) == [i \in 1..BitLength(n) |-> (n \div Pow2(BitLength(n) - i)) % 2]

\* the whole number with the given bits (fewer than 31)
RECURSIVE IntOf(_)
IntOf(bits) ==
    IF bits = <<>> THEN 0
    ELSE 2 * IntOf(SubSeq(bits, 1, Len(bits) - 1)) + bits[Len(bits)]

\* the significand plus one unit in its last place: the carry runs up to the
\* last 0 bit
Inc(bits) ==
    IF \A i \in 1..Len(bits) : bits[i] = 1
    THEN <<1>> \o [i \in 1..Len(bits) |-> 0]
    ELSE LET k == CHOOSE i \in 1..Len(bits) :
                     bits[i] = 0 /\ \A j \in (i + 1)..Len(bits) : bits[j] = 1
         IN <<>> \o
            [i \in 1..Len(bits) |-> IF i < k THEN bits[i] ELSE IF i = k THEN 1 ELSE 0]

\* a significand of any length rounded to Precision bits, ties to even
RoundToPrecision(bits, scale) ==
    IF Len(bits) <= Precision THEN [bits |-> bits, scale |-> scale]
    ELSE LET keep == SubSeq(bits, 1, Precision)
             drop == SubSeq(bits, Precision + 1, Len(bits))
             rest == \E k \in 2..Len(drop) : drop[k] = 1
             up == drop[1] = 1 /\ (rest \/ keep[Precision] = 1)
         IN [bits |-> IF up THEN Inc(keep) ELSE keep, scale |-> scale - Len(drop)]

\* Long division and multiplication go Chunk bits at a time.
Chunk == 13

\* a / b of two whole numbers 0 < a < b <= 2^16, as the nearest double: long
\* division, the binary digits after the leading zeros kept to Precision bits
\* and the remainder deciding the rounding.  rem[j] is the remainder after
\* j * Chunk digits.
DivDouble(a, b) ==
    LET lead == CHOOSE k \in 0..16 : a * Pow2(k + 1) >= b /\ a * Pow2(k) < b
        rem[j \in 0..(Precision \div Chunk)] ==
            IF j = 0 THEN a * Pow2(lead) ELSE (rem[j - 1] * Pow2(Chunk)) % b
        digits == <<>> \o
                  [i \in 1..Precision |->
                      ((rem[(i - 1) \div Chunk] * Pow2(((i - 1) % Chunk) + 1)) \div b) % 2]
        r == (rem[(Precision - 1) \div Chunk] * Pow2(((Precision - 1) % Chunk) + 1)) % b
        up == 2 * r > b \/ (2 * r = b /\ digits[Precision] = 1)
    IN [bits |-> IF up THEN Inc(digits) ELSE digits, scale |-> lead + Precision]

\* a significand without its leading zeros
StripZeros(bits) ==
    IF \A i \in 1..Len(bits) : bits[i] = 0 THEN <<>>
    ELSE LET first == CHOOSE i \in 1..Len(bits) :
                         bits[i] = 1 /\ \A j \in 1..(i - 1) : bits[j] = 0
         IN SubSeq(bits, first, Len(bits))

\* the exact product of a significand and a whole number 1 <= n < 2^15: the
\* significand is cut into limbs of Chunk bits, limb 1 the most significant,
\* and sum[j] is limb j times n plus the carry of the limbs below it
MulBits(bits, n) ==
    LET limbs == (Len(bits) + Chunk - 1) \div Chunk
        pad == limbs * Chunk - Len(bits)
        limb == <<>> \o
                [j \in 1..limbs |->
                    IntOf(<<>> \o [k \in 1..Chunk |->
                                      IF (j - 1) * Chunk + k <= pad THEN 0
                                      ELSE bits[(j - 1) * Chunk + k - pad]])]
        sum[j \in 1..limbs] ==
            limb[j] * n + (IF j = limbs THEN 0 ELSE sum[j + 1] \div Pow2(Chunk))
    IN StripZeros(BitsOf(sum[1] \div Pow2(Chunk)) \o
                  [i \in 1..(limbs * Chunk) |->
                      (sum[(i - 1) \div Chunk + 1]
                          \div Pow2(Chunk - 1 - ((i - 1) % Chunk))) % 2])

\* n * x of a whole number and a double, as the nearest double
MulDouble(n, x) == RoundToPrecision(MulBits(x.bits, n), x.scale)

\* the conversion of a number to the unsigned long of canvas.width and
\* canvas.height: the fraction is cut off
ToUnsignedLong(x) ==
    IF x.scale >= Len(x.bits) THEN 0
    ELSE IntOf(SubSeq(x.bits, 1, Len(x.bits) - x.scale))

MAX_DIMENSION == 1024

\* the edges an image may decode to, and the decoded images
Edges == {1, 561, 1000, 1024, 1025, 1122, 2048, 2050}
Images == [width : Edges, height : Edges]
SampleImages == {[width |-> 2048, height |-> 1024]}

\* the size given to the canvas for a decoded image
CanvasSize(img) ==
    IF img.width > img.height /\ img.width > MAX_DIMENSION
    THEN [width |-> MAX_DIMENSION,
          height |-> ToUnsignedLong(MulDouble(img.height,
                                              DivDouble(MAX_DIMENSION, img.width)))]
    ELSE IF img.height > MAX_DIMENSION
    THEN [width |-> ToUnsignedLong(MulDouble(img.width,
                                             DivDouble(MAX_DIMENSION, img.height))),
          height |-> MAX_DIMENSION]
    ELSE [width |-> img.width, height |-> img.height]

\* the canvas size of every decoded image, computed once
CanvasSizes == {<<img, CanvasSize(img)>> : img \in Images \cup SampleImages}
CanvasSizeOf(img) == (CHOOSE entry \in CanvasSizes : entry[1] = img)[2]

\* a staged image: none, the JPEG data URL of the canvas ("data:," for a canvas
\* without pixels), or the data URL of the file as it was read
NoImage == [kind |-> "null", file |-> NoFile, width |-> 0, height |-> 0]
Resized(f, img) ==
    LET size == CanvasSizeOf(img)
    IN [kind |-> IF size.width = 0 \/ size.height = 0 THEN "empty" ELSE "jpeg",
        file |-> f, width |-> size.width, height |-> size.height]
Raw(f, img) == [kind |-> "raw", file |-> f, width |-> img.width, height |-> img.height]

\* API_URL: the configured VITE_API_URL, or the default when none is configured
NoEnv == "undefined"
DefaultApiUrl == "http://localhost:8000/api"
API_URL(env) == IF env = NoEnv THEN DefaultApiUrl ELSE env
ApiUrls == {API_URL(env) : env \in {NoEnv, "https://plant.example/api"}}

\* the url argument of axios.post: a single-quoted string, its text taken literally
ChatUrl == <<"${API_URL}", "/api/chat">>
ApproveUrl == <<"${API_URL}", "/api/work_orders/approve">>

---------------------------------------------------------------------------
(* Chatbot.jsx: state *)

VARIABLES
    chatPhase,     \* "mounted" while the component is in the tree, then "unmounted"
    isOpen,        \* useState(false)
    messages,      \* useState([])
    input,         \* useState("")
    draft,         \* useState("")
    loading,       \* useState(false)
    sessionId,     \* useState(() => "session-" + random)
    imageFile,     \* useState(null)
    imageBase64,   \* useState(null)
    chatNet,       \* POST /chat requests in flight and their undelivered replies
    approveNet,    \* POST /work_orders/approve requests in flight and replies
    uploads,       \* FileReader / Image decodes in progress
    nCalls,        \* number of requests issued so far (numbers the calls)
    nUploads       \* number of files selected so far

chatVars == <<chatPhase, isOpen, messages, input, draft, loading, sessionId, imageFile,
              imageBase64, chatNet, approveNet, uploads, nCalls, nUploads>>

ChatInit ==
    /\ chatPhase = "mounted"
    /\ isOpen = FALSE
    /\ messages = <<>>
    /\ input = <<>>
    /\ draft = NoDraft
    /\ loading = FALSE
    /\ sessionId = 0
    /\ imageFile = NoFile
    /\ imageBase64 = NoImage
    /\ chatNet = {}
    /\ approveNet = {}
    /\ uploads = {}
    /\ nCalls = 0
    /\ nUploads = 0

---------------------------------------------------------------------------
(* Chatbot.jsx: rendering conditions of the controls *)

\* variant: the draft panel rendered whenever the chat is open
DraftPanelShownWhenOpen == chatPhase = "mounted" /\ isOpen

\* the component renders while it is mounted
Rendered == chatPhase = "mounted"

DraftPanelShown == Rendered /\ isOpen /\ draft # NoDraft
ChatPanelShown == Rendered /\ isOpen
SuggestionsShown == Rendered /\ isOpen /\ Len(messages) = 0
PreviewShown == Rendered /\ isOpen /\ imageBase64 # NoImage

ApproveNeverDisabled == FALSE
ApproveDisabled == loading
DismissDisabled == loading

\* variant: the text input without its disabled attribute
InputNeverDisabled == FALSE

InputDisabled == loading

\* variant: the send button's disabled attribute without `loading ||`
SendDisabledIgnoresLoading == ~Truthy(Trim(input)) /\ imageBase64 = NoImage

SendDisabled == loading \/ (~Truthy(Trim(input)) /\ imageBase64 = NoImage)

---------------------------------------------------------------------------
(* Chatbot.jsx: handlers *)

\* variant: a setter taking effect whether or not the component is mounted
SetChatStateUnguarded(next, current) == next

\* a setter called by a continuation: React drops the update of a component that
\* has been unmounted
SetChatState(next, current) == IF chatPhase = "mounted" THEN next ELSE current

\* A transcript entry.  role, content and image are the message's fields; call is
\* a ghost field, the number of the handler invocation that appended the message.
Message(role, content, image, call) ==
    [role |-> role, content |-> content, image |-> image, call |-> call]

\* removeImage's two assignments
removeImage ==
    /\ imageFile' = NoFile
    /\ imageBase64' = NoImage

\* variant: a reset that keeps the session id
resetChatKeepsSession ==
    /\ sessionId < MaxResets
    /\ messages' = <<>>
    /\ draft' = NoDraft
    /\ input' = <<>>
    /\ removeImage
    /\ UNCHANGED <<chatPhase, isOpen, loading, sessionId, chatNet, approveNet, uploads, nCalls,
                   nUploads>>

\* resetChat; the n-th identifier drawn with Math.random() is modelled by its
\* ordinal n, two draws being taken to differ
resetChat ==
    /\ sessionId < MaxResets
    /\ messages' = <<>>
    /\ draft' = NoDraft
    /\ input' = <<>>
    /\ removeImage
    /\ sessionId' = sessionId + 1
    /\ UNCHANGED <<chatPhase, isOpen, loading, chatNet, approveNet, uploads, nCalls, nUploads>>

\* variant: the early return testing input without trim()
SendGuardUntrimmed == Truthy(input)

\* the early return of sendMessage
SendGuard == Truthy(Trim(input))

\* variant: the payload carrying the input as typed
PayloadMessageUntrimmed(currentInput) ==
    IF Truthy(Trim(currentInput)) THEN currentInput ELSE DefaultPrompt

\* the message field of the payload
PayloadMessage(currentInput) ==
    IF Truthy(Trim(currentInput)) THEN Trim(currentInput) ELSE DefaultPrompt

\* the POST of sendMessage: url and payload; call and draftAtSend are ghost fields,
\* the number of the invocation and the draft shown when it was made
ChatRequest(call, currentInput, currentImg) ==
    [call |-> call, url |-> ChatUrl, message |-> PayloadMessage(currentInput),
     session_id |-> sessionId, image_base64 |-> currentImg, draftAtSend |-> draft]

\* sendMessage up to its await
sendMessage ==
    IF ~SendGuard
    THEN UNCHANGED chatVars
    ELSE /\ nCalls < MaxCalls
         /\ messages' = Append(messages, Message("user", input, imageBase64,
                                                 nCalls + 1))
         /\ input' = <<>>
         /\ removeImage
         /\ loading' = TRUE
         /\ chatNet' = chatNet \cup {ChatRequest(nCalls + 1, input, imageBase64)}
         /\ nCalls' = nCalls + 1
         /\ UNCHANGED <<chatPhase, isOpen, draft, sessionId, approveNet, uploads, nUploads>>

\* variant: a reply's draft shown only when no draft is shown yet
DraftAfterKeepsFirst(data) == IF draft # NoDraft THEN draft ELSE data.draft

\* the draft after a fulfilled request: if (res.data.draft) setDraft(res.data.draft)
DraftAfter(data) == IF data.draft # NoDraft THEN data.draft ELSE draft

\* sendMessage after its await, request r fulfilled with res.data = data
sendMessageThen(r, data) ==
    /\ r \in chatNet
    /\ messages' = SetChatState(Append(messages, Message("ai", data.response, NoImage,
                                                         r.call)), messages)
    /\ draft' = SetChatState(DraftAfter(data), draft)
    /\ loading' = SetChatState(FALSE, loading)
    /\ chatNet' = chatNet \ {r}
    /\ UNCHANGED <<chatPhase, isOpen, input, sessionId, imageFile, imageBase64, approveNet,
                   uploads, nCalls, nUploads>>

\* variant: the catch block also hiding the draft
sendMessageCatchClearsDraft(r) ==
    /\ r \in chatNet
    /\ messages' = Append(messages, Message("ai", ErrorText, NoImage, r.call))
    /\ draft' = NoDraft
    /\ loading' = FALSE
    /\ chatNet' = chatNet \ {r}
    /\ UNCHANGED <<chatPhase, isOpen, input, sessionId, imageFile, imageBase64,
                   approveNet, uploads, nCalls, nUploads>>

\* variant: setLoading(false) at the end of the try block instead of in finally
sendMessageCatchNoFinally(r) ==
    /\ r \in chatNet
    /\ messages' = Append(messages, Message("ai", ErrorText, NoImage, r.call))
    /\ chatNet' = chatNet \ {r}
    /\ UNCHANGED <<chatPhase, isOpen, input, draft, loading, sessionId, imageFile, imageBase64,
                   approveNet, uploads, nCalls, nUploads>>

\* sendMessage after its await, the request rejected
sendMessageCatch(r) ==
    /\ r \in chatNet
    /\ messages' = SetChatState(Append(messages, Message("ai", ErrorText, NoImage,
                                                         r.call)), messages)
    /\ loading' = SetChatState(FALSE, loading)
    /\ chatNet' = chatNet \ {r}
    /\ UNCHANGED <<chatPhase, isOpen, input, draft, sessionId, imageFile, imageBase64,
                   approveNet, uploads, nCalls, nUploads>>

ApproveRequest(call) ==
    [call |-> call, url |-> ApproveUrl, session_id |-> sessionId]

\* handleApprove up to its await
handleApprove ==
    /\ nCalls < MaxCalls
    /\ loading' = TRUE
    /\ approveNet' = approveNet \cup {ApproveRequest(nCalls + 1)}
    /\ nCalls' = nCalls + 1
    /\ UNCHANGED <<chatPhase, isOpen, messages, input, draft, sessionId, imageFile, imageBase64,
                   chatNet, uploads, nUploads>>

\* variant: the success path without setDraft("")
handleApproveThenKeepsDraft(r, data) ==
    /\ r \in approveNet
    /\ messages' = Append(messages, Message("ai", SuccessText(data.work_order_id),
                                            NoImage, r.call))
    /\ loading' = FALSE
    /\ approveNet' = approveNet \ {r}
    /\ UNCHANGED <<chatPhase, isOpen, input, draft, sessionId, imageFile, imageBase64, chatNet,
                   uploads, nCalls, nUploads>>

\* variant: the confirmation set as the whole transcript instead of appended
handleApproveThenDropsTranscript(r, data) ==
    /\ r \in approveNet
    /\ draft' = SetChatState(NoDraft, draft)
    /\ messages' = SetChatState(<<Message("ai", SuccessText(data.work_order_id),
                                         NoImage, r.call)>>, messages)
    /\ loading' = SetChatState(FALSE, loading)
    /\ approveNet' = approveNet \ {r}
    /\ UNCHANGED <<chatPhase, isOpen, input, sessionId, imageFile, imageBase64, chatNet,
                   uploads, nCalls, nUploads>>

\* handleApprove after its await, request r fulfilled with res.data = data
handleApproveThen(r, data) ==
    /\ r \in approveNet
    /\ draft' = SetChatState(NoDraft, draft)
    /\ messages' = SetChatState(Append(messages,
                                       Message("ai", SuccessText(data.work_order_id),
                                               NoImage, r.call)), messages)
    /\ loading' = SetChatState(FALSE, loading)
    /\ approveNet' = approveNet \ {r}
    /\ UNCHANGED <<chatPhase, isOpen, input, sessionId, imageFile, imageBase64, chatNet,
                   uploads, nCalls, nUploads>>

\* variant: setDraft("") before the await instead of after it
handleApproveCatchClearsDraft(r) ==
    /\ r \in approveNet
    /\ draft' = NoDraft
    /\ loading' = FALSE
    /\ approveNet' = approveNet \ {r}
    /\ UNCHANGED <<chatPhase, isOpen, messages, input, sessionId, imageFile, imageBase64,
                   chatNet, uploads, nCalls, nUploads>>

\* handleApprove after its await, the request rejected
handleApproveCatch(r) ==
    /\ r \in approveNet
    /\ loading' = SetChatState(FALSE, loading)
    /\ approveNet' = approveNet \ {r}
    /\ UNCHANGED <<chatPhase, isOpen, messages, input, draft, sessionId, imageFile, imageBase64,
                   chatNet, uploads, nCalls, nUploads>>

\* handleImageUpload, synchronous part
handleImageUpload(file) ==
    IF file = NoFile
    THEN UNCHANGED chatVars
    ELSE /\ nUploads < MaxUploads
         /\ uploads' = uploads \cup {[id |-> nUploads + 1, file |-> file, stage |-> "reading"]}
         /\ nUploads' = nUploads + 1
         /\ UNCHANGED <<chatPhase, isOpen, messages, input, draft, loading, sessionId, imageFile,
                        imageBase64, chatNet, approveNet, nCalls>>

\* reader.onload: hands the data URL to a new Image
readerOnload(u) ==
    /\ u \in uploads /\ u.stage = "reading"
    /\ uploads' = (uploads \ {u}) \cup {[u EXCEPT !.stage = "decoding"]}
    /\ UNCHANGED <<chatPhase, isOpen, messages, input, draft, loading, sessionId, imageFile,
                   imageBase64, chatNet, approveNet, nCalls, nUploads>>

\* reader.onerror: logs
readerOnerror(u) ==
    /\ u \in uploads /\ u.stage = "reading"
    /\ uploads' = uploads \ {u}
    /\ UNCHANGED <<chatPhase, isOpen, messages, input, draft, loading, sessionId, imageFile,
                   imageBase64, chatNet, approveNet, nCalls, nUploads>>

\* img.onload for a file decoded to img: the canvas path stages the re-encoded
\* image, its catch the raw data URL
imgOnload(u, canvasOk, img) ==
    /\ u \in uploads /\ u.stage = "decoding"
    /\ imageBase64' = SetChatState(IF canvasOk THEN Resized(u.file, img)
                                   ELSE Raw(u.file, img),
                                   imageBase64)
    /\ imageFile' = SetChatState(u.file, imageFile)
    /\ uploads' = uploads \ {u}
    /\ UNCHANGED <<chatPhase, isOpen, messages, input, draft, loading, sessionId, chatNet,
                   approveNet, nCalls, nUploads>>

\* img.onerror: logs
imgOnerror(u) ==
    /\ u \in uploads /\ u.stage = "decoding"
    /\ uploads' = uploads \ {u}
    /\ UNCHANGED <<chatPhase, isOpen, messages, input, draft, loading, sessionId, imageFile,
                   imageBase64, chatNet, approveNet, nCalls, nUploads>>

---------------------------------------------------------------------------
(* Chatbot.jsx: the user's events on the rendered controls *)

\* the launcher button and the panel's close button
ToggleOpen ==
    /\ Rendered
    /\ isOpen' = ~isOpen
    /\ UNCHANGED <<chatPhase, messages, input, draft, loading, sessionId, imageFile, imageBase64,
                   chatNet, approveNet, uploads, nCalls, nUploads>>

\* the component leaves the tree (Chatbot.jsx registers no cleanup)
ChatUnmount ==
    /\ chatPhase = "mounted"
    /\ chatPhase' = "unmounted"
    /\ UNCHANGED <<isOpen, messages, input, draft, loading, sessionId, imageFile,
                   imageBase64, chatNet, approveNet, uploads, nCalls, nUploads>>

\* onChange of the text input
TypeInput(t) ==
    /\ ChatPanelShown /\ ~InputDisabled
    /\ input' = t
    /\ UNCHANGED <<chatPhase, isOpen, messages, draft, loading, sessionId, imageFile, imageBase64,
                   chatNet, approveNet, uploads, nCalls, nUploads>>

\* onClick of a suggested question
ClickSuggestion(t) ==
    /\ SuggestionsShown
    /\ input' = t
    /\ UNCHANGED <<chatPhase, isOpen, messages, draft, loading, sessionId, imageFile, imageBase64,
                   chatNet, approveNet, uploads, nCalls, nUploads>>

\* onKeyPress Enter in the text input
PressEnter == ChatPanelShown /\ ~InputDisabled /\ sendMessage

\* onClick of the send button
ClickSend == ChatPanelShown /\ ~SendDisabled /\ sendMessage

\* onClick of "Approve & Save"
ClickApprove == DraftPanelShown /\ ~ApproveDisabled /\ handleApprove

\* variant: the Close button of the draft panel also emptying the input
ClickDismissClearsInput ==
    /\ DraftPanelShown /\ ~DismissDisabled
    /\ draft' = NoDraft
    /\ input' = <<>>
    /\ UNCHANGED <<chatPhase, isOpen, messages, loading, sessionId, imageFile, imageBase64,
                   chatNet, approveNet, uploads, nCalls, nUploads>>

\* onClick of "Close" in the draft panel: setDraft("")
ClickDismiss ==
    /\ DraftPanelShown /\ ~DismissDisabled
    /\ draft' = NoDraft
    /\ UNCHANGED <<chatPhase, isOpen, messages, input, loading, sessionId, imageFile, imageBase64,
                   chatNet, approveNet, uploads, nCalls, nUploads>>

\* onClick of "New Chat"
ClickNewChat == ChatPanelShown /\ resetChat

\* onChange of the file input
SelectFile(file) == ChatPanelShown /\ handleImageUpload(file)

\* onClick of the preview's remove button
ClickRemoveImage ==
    /\ PreviewShown
    /\ removeImage
    /\ UNCHANGED <<chatPhase, isOpen, messages, input, draft, loading, sessionId, chatNet,
                   approveNet, uploads, nCalls, nUploads>>

---------------------------------------------------------------------------
(* The backend, seen from the client: every request is fulfilled with data of   *)
(* the interface's shape or is rejected, after any delay.                       *)

\* POST /chat -> {response, draft?}; an absent draft reads as falsy, like ""
ChatReplies == [response : ResponseTexts, draft : Drafts \cup {NoDraft}]

\* POST /work_orders/approve -> {work_order_id}
ApproveReplies == [work_order_id : WorkOrderIds]

---------------------------------------------------------------------------
(* Dashboard.jsx: values *)

Metrics == {"z_rms", "x_rms"}
InitialTarget == "z_rms"

\* JavaScript null and undefined among numbers; numbers of the model are >= 0
Null == -1
Undefined == -2

\* arr[i] of a JavaScript array, i counted from 1 here
At(arr, i) == IF i \in 1..Len(arr) THEN arr[i] ELSE Undefined

\* variant: a missing flag taken as set
FlagAtDefaultTrue(flags, i) == IF i \in 1..Len(flags) THEN flags[i] ELSE TRUE

\* flags[i] used as a condition: undefined is falsy
FlagAt(flags, i) == IF i \in 1..Len(flags) THEN flags[i] ELSE FALSE

\* x || 0 on a number or undefined
OrZero(x) == IF x = Undefined \/ x = Null \/ x = 0 THEN 0 ELSE x

\* An ISO timestamp "YYYY-MM-DDTHH:MM:SS" as its date, its HH:MM and its seconds
Timestamp(d, m, sec) == [date |-> d, hhmm |-> m, ss |-> sec]
NoTimestamp == [date |-> Undefined, hhmm |-> Undefined, ss |-> Undefined]

\* time.substring(11, 16)
Substring_11_16(ts) == ts.hhmm

\* new Date(ts).getTime(), in seconds
GetTime(ts) == (ts.date * 1440 + ts.hhmm) * 60 + ts.ss

TsAt(arr, i) == IF i \in 1..Len(arr) THEN arr[i] ELSE NoTimestamp

\* the history points of the line chart
HistoryPoints(data) ==
    [i \in 1..Len(data.history_x) |->
        LET val == At(data.history_y, i)
            isError == IF "history_flags" \in data.defined
                       THEN FlagAt(data.history_flags, i) ELSE FALSE
        IN [time |-> Substring_11_16(data.history_x[i]),
            history |-> val,
            history_error |-> IF isError THEN val ELSE Null,
            forecast |-> Null]]

\* the forecast points of the line chart
ForecastPoints(data) ==
    [i \in 1..Len(data.forecast_x) |->
        [time |-> Substring_11_16(data.forecast_x[i]),
         history |-> Null,
         history_error |-> Null,
         forecast |-> At(data.forecast_y, i)]]

\* variant: the forecast points put before the history points
MergeSeriesForecastFirst(data) == ForecastPoints(data) \o HistoryPoints(data)

\* [...history, ...forecast]
MergeSeries(data) == HistoryPoints(data) \o ForecastPoints(data)

\* variant: a score equal to the threshold classified as an anomaly
StatusAtMost(score, currentThreshold) ==
    IF score <= currentThreshold THEN "Anomaly" ELSE "Normal"

\* the classification of one score
Status(score, currentThreshold) ==
    IF score < currentThreshold THEN "Anomaly" ELSE "Normal"

\* the points of the scatter charts
Anomalies(data) ==
    LET currentThreshold == IF "threshold" \in data.defined THEN data.threshold ELSE Undefined
        timestamps == IF "timestamps" \in data.defined THEN data.timestamps ELSE <<>>
        rawValues == IF "raw_values" \in data.defined THEN data.raw_values ELSE <<>>
    IN [i \in 1..Len(data.scores) |->
           [time |-> IF i \in 1..Len(timestamps) THEN GetTime(timestamps[i]) ELSE i - 1,
            score |-> data.scores[i],
            rawValue |-> OrZero(At(rawValues, i)),
            status |-> Status(data.scores[i], currentThreshold),
            dateStr |-> TsAt(timestamps, i)]]

TopN == 10

\* slice(0, 10)
Slice(list) == SubSeq(list, 1, IF Len(list) < TopN THEN Len(list) ELSE TopN)

\* item.feature.replace(/_/g, ' ').toUpperCase(), a feature name being a sequence of characters
UpperChar(c) == IF c = "_" THEN " " ELSE IF c = "a" THEN "A" ELSE c
Pretty(feature) == [k \in 1..Len(feature) |-> UpperChar(feature[k])]

TopFeatures(list) ==
    LET top == Slice(list)
    IN [k \in 1..Len(top) |-> [feature |-> Pretty(top[k].feature),
                               importance |-> top[k].importance]]

---------------------------------------------------------------------------
(* Dashboard.jsx: what the backend may send.  A reply is described by the    *)
(* version of the backend's data it carries and by its shape: complete, or   *)
(* lacking one of the fields the handler reads.                              *)

Versions == {1, 2}
Shapes == {"ok", "no_history_x", "no_scores", "no_metric"}

MetricOffset(metric) == IF metric = "z_rms" THEN 0 ELSE 2

\* GET /forecast/{metric}
ForecastRes(target, v, sh) ==
    [defined |-> {"history_y", "history_flags", "forecast_x", "forecast_y"}
                 \cup (IF sh = "no_history_x" THEN {} ELSE {"history_x"}),
     history_x |-> <<Timestamp(1, 10, 0)>>,
     history_y |-> <<v + MetricOffset(target)>>,
     history_flags |-> <<v = 2>>,
     forecast_x |-> <<Timestamp(1, 11, 0)>>,
     forecast_y |-> <<v + MetricOffset(target) + 1>>]

\* GET /anomalies/{metric}
AnomalyRes(target, v, sh) ==
    [defined |-> {"threshold", "timestamps", "raw_values"}
                 \cup (IF sh = "no_scores" THEN {} ELSE {"scores"}),
     threshold |-> v,
     timestamps |-> <<Timestamp(1, 10, 0)>>,
     raw_values |-> <<v + MetricOffset(target)>>,
     scores |-> <<1>>]

\* GET /importance: the metrics it has an entry for, and each entry's list
ImportanceRes(target, v, sh) ==
    [metrics |-> IF sh = "no_metric" THEN Metrics \ {target} ELSE Metrics,
     list |-> [m \in Metrics |->
                  <<[feature |-> <<"a", "_", "a">>,
                     importance |-> v + MetricOffset(m)]>>]]

\* arrays of at most n entries drawn from S
SeqsUpTo(S, n) == UNION {[1..k -> S] : k \in 0..n}

\* n successive timestamps
Stamps(n, first) == [i \in 1..n |-> Timestamp(1, first + i, 0)]

\* a value array: the first n of the backend's values
ValuesFrom(n, first) == [i \in 1..n |-> first + i]

\* GET /forecast/{metric} with arrays of every length, the value arrays as long
\* as the timestamp arrays or not, and history_flags absent or of every content
ForecastReply(nhx, nhy, nfx, nfy, fd, hf) ==
    [defined |-> {"history_x", "history_y", "forecast_x", "forecast_y"} \cup fd,
     history_x |-> Stamps(nhx, 10),
     history_y |-> ValuesFrom(nhy, 4),
     history_flags |-> hf,
     forecast_x |-> Stamps(nfx, 20),
     forecast_y |-> ValuesFrom(nfy, 7)]

ForecastReplies ==
    {ForecastReply(nhx, nhy, nfx, nfy, {}, <<>>) :
        nhx \in 0..MaxPoints, nhy \in 0..MaxPoints, nfx \in 0..MaxPoints,
        nfy \in 0..MaxPoints}
    \cup
    {ForecastReply(nhx, nhy, nfx, nfy, {"history_flags"}, hf) :
        nhx \in 0..MaxPoints, nhy \in 0..MaxPoints, nfx \in 0..MaxPoints,
        nfy \in 0..MaxPoints, hf \in SeqsUpTo(BOOLEAN, MaxPoints)}

\* GET /anomalies/{metric} with scores on either side of the threshold, and
\* timestamps and raw_values absent or of every length
AnomalyReplies ==
    {[defined |-> {"threshold", "scores"} \cup ad,
      threshold |-> 2,
      scores |-> sc,
      timestamps |-> Stamps(nts, 10),
      raw_values |-> ValuesFrom(nrv, 4)] :
        sc \in SeqsUpTo({1, 2, 3}, MaxPoints), nts \in 0..MaxPoints,
        nrv \in 0..MaxPoints, ad \in SUBSET {"timestamps", "raw_values"}}

NoSummary == [data_timestamp |-> Null, iso_zone |-> "null", metrics |-> {}]
Summaries ==
    {[data_timestamp |-> v, iso_zone |-> "A",
      metrics |-> Metrics \cup {"z_rms_error_flag"}] : v \in Versions}

\* a data_timestamp that new Date() cannot parse, and the time of the Invalid Date
\* it makes
Unparseable == -3
InvalidDate == -4

\* new Date(data_timestamp): its time in ms
SensorTime(data_timestamp) ==
    IF data_timestamp = Unparseable THEN InvalidDate ELSE data_timestamp

\* the function memoized as isStale, called with summary s when new Date() is now;
\* the difference with an Invalid Date is NaN, and NaN > 30 is false
ComputeIsStale(s, now) ==
    IF s = NoSummary \/ s.data_timestamp = Null THEN FALSE
    ELSE IF SensorTime(s.data_timestamp) = InvalidDate THEN FALSE
    ELSE LET diffMins == (now - SensorTime(s.data_timestamp)) \div 60000
         IN diffMins > 30

\* the wall clock when the page loads, in ms
ClockStart == 40 * 60000

\* the time that passes in one step of the clock, in ms
ClockStep == 31 * 60000

\* the ages of the data a summary may report, in ms: 10 min, 30 min, 30 min 30 s,
\* 31 min, and data stamped one minute ahead of the client's clock
Ages == {10 * 60000, 30 * 60000, 30 * 60000 + 30000, 31 * 60000, 0 - 60000}

\* GET /summary at time now: a summary of one of the ages, or one without
\* data_timestamp, or one whose data_timestamp does not parse
TimedSummaries(now) ==
    {[data_timestamp |-> ts, iso_zone |-> "A",
      metrics |-> Metrics \cup {"z_rms_error_flag"}] :
        ts \in {now - age : age \in Ages} \cup {Null, Unparseable}}

\* GET /work_orders -> {items}; a reply without items reads as []
WorkOrderReplies ==
    {[defined |-> {"items"}, items |-> <<"WO-2", "WO-1">>],
     [defined |-> {}, items |-> <<>>]}

\* key.includes("_error_flag")
IsErrorFlagKey(key) == key \notin Metrics

---------------------------------------------------------------------------
(* Dashboard.jsx: state *)

VARIABLES
    phase,           \* "init" before the component mounts, "mounted", "unmounted"
    selectedTarget,  \* useState("z_rms")
    summary,         \* useState(null)
    forecastData,    \* useState([])
    anomalyData,     \* useState([])
    importanceData,  \* useState([])
    threshold,       \* useState(0)
    workOrders,      \* useState([])
    workOrdersLoading, \* useState(false)
    isStale,         \* useMemo(..., [summary]): the value the last computation returned
    clock,           \* what new Date() returns, in ms
    timers,          \* the intervals set and not cleared
    intervalId,      \* per effect, the intervalId its cleanup closes over
    summaryNet,      \* fetchSummary invocations whose request is in flight
    workOrderNet,    \* fetchWorkOrders invocations suspended at their await
    chartTicks,      \* fetchCharts invocations suspended at their await
    shown,           \* ghost: the tick each displayed chart state was computed from,
                     \* and the responses the two series were computed from
    nTicks,          \* number of fetchCharts invocations so far (numbers the ticks)
    nPolls,          \* number of fetchSummary invocations so far
    nListings,       \* number of fetchWorkOrders invocations so far
    nTimers          \* number of setInterval calls so far (numbers the timers)

dashVars == <<phase, selectedTarget, summary, forecastData, anomalyData, importanceData,
              threshold, workOrders, workOrdersLoading, isStale, clock, timers, intervalId, summaryNet,
              workOrderNet, chartTicks, shown, nTicks, nPolls, nListings, nTimers>>

NoTick == [id |-> 0, target |-> "null"]
NoResponse == [defined |-> {}]

DashInit ==
    /\ phase = "init"
    /\ selectedTarget = InitialTarget
    /\ summary = NoSummary
    /\ forecastData = <<>>
    /\ anomalyData = <<>>
    /\ importanceData = <<>>
    /\ threshold = 0
    /\ workOrders = <<>>
    /\ workOrdersLoading = FALSE
    /\ isStale = FALSE
    /\ clock = ClockStart
    /\ timers = {}
    /\ intervalId = [feed \in {"summary", "charts", "workOrders"} |-> 0]
    /\ summaryNet = {}
    /\ workOrderNet = {}
    /\ chartTicks = {}
    /\ shown = [forecastRes |-> NoResponse, anomalyRes |-> NoResponse,
                forecast |-> NoTick, anomaly |-> NoTick,
                threshold |-> NoTick, importance |-> NoTick]
    /\ nTicks = 0
    /\ nPolls = 0
    /\ nListings = 0
    /\ nTimers = 0

---------------------------------------------------------------------------
(* Dashboard.jsx: effects and handlers.  An operator named Call... gives the  *)
(* value a variable takes when the function is called from a larger step.    *)

\* fetchSummary(): the request it issues
CallFetchSummary(net, n) == net \cup {[id |-> n + 1]}

\* fetchCharts() up to its await: the tick it suspends, with the selectedTarget
\* its closure holds
CallFetchCharts(ticks, n, target) == ticks \cup {[id |-> n + 1, target |-> target]}

\* fetchWorkOrders() up to its await: the request it issues
CallFetchWorkOrders(net, n) == net \cup {[id |-> n + 1]}

\* setInterval(callback, rate) of an effect
CallSetInterval(ts, n, feed, target) ==
    ts \cup {[id |-> n + 1, feed |-> feed, target |-> target]}

\* clearInterval(intervalId) of an effect's cleanup
CallClearInterval(ts, id) == {tm \in ts : tm.id # id}

\* first render: the three effects run, each calling its fetch and setting its interval
Mount ==
    /\ phase = "init"
    /\ phase' = "mounted"
    /\ summaryNet' = CallFetchSummary(summaryNet, nPolls)
    /\ nPolls' = nPolls + 1
    /\ chartTicks' = CallFetchCharts(chartTicks, nTicks, selectedTarget)
    /\ nTicks' = nTicks + 1
    /\ workOrdersLoading' = TRUE
    /\ workOrderNet' = CallFetchWorkOrders(workOrderNet, nListings)
    /\ nListings' = nListings + 1
    /\ timers' = CallSetInterval(
                    CallSetInterval(
                      CallSetInterval(timers, nTimers, "summary", selectedTarget),
                      nTimers + 1, "charts", selectedTarget),
                    nTimers + 2, "workOrders", selectedTarget)
    /\ intervalId' = [summary |-> nTimers + 1, charts |-> nTimers + 2,
                      workOrders |-> nTimers + 3]
    /\ nTimers' = nTimers + 3
    /\ UNCHANGED <<selectedTarget, summary, forecastData, anomalyData, importanceData,
                   threshold, workOrders, shown, isStale, clock>>

\* variant: a teardown in which the work-order effect returns no cleanup
UnmountKeepsWorkOrdersTimer ==
    /\ phase = "mounted"
    /\ phase' = "unmounted"
    /\ timers' = CallClearInterval(CallClearInterval(timers, intervalId["summary"]),
                                   intervalId["charts"])
    /\ UNCHANGED <<selectedTarget, summary, forecastData, anomalyData, importanceData,
                   threshold, workOrders, workOrdersLoading, intervalId, summaryNet,
                   workOrderNet, chartTicks, shown, nTicks, nPolls, nListings, nTimers, isStale, clock>>

\* teardown: the three cleanups run
Unmount ==
    /\ phase = "mounted"
    /\ phase' = "unmounted"
    /\ timers' = CallClearInterval(
                    CallClearInterval(
                      CallClearInterval(timers, intervalId["summary"]),
                      intervalId["charts"]),
                    intervalId["workOrders"])
    /\ UNCHANGED <<selectedTarget, summary, forecastData, anomalyData, importanceData,
                   threshold, workOrders, workOrdersLoading, intervalId, summaryNet,
                   workOrderNet, chartTicks, shown, nTicks, nPolls, nListings, nTimers, isStale, clock>>

\* variant: the interval callback showing the loading flag without fetching
WorkOrdersTimerNoFetch(tm) ==
    /\ tm \in timers /\ tm.feed = "workOrders"
    /\ nPolls + nListings < MaxPolls
    /\ workOrdersLoading' = (IF phase = "mounted" THEN TRUE ELSE workOrdersLoading)
    /\ UNCHANGED <<phase, selectedTarget, summary, forecastData, anomalyData,
                   importanceData, threshold, workOrders, timers, intervalId, summaryNet,
                   workOrderNet, chartTicks, shown, nTicks, nPolls, nListings, nTimers,
                   isStale, clock>>

\* the work-order interval fires: fetchWorkOrders up to its await
WorkOrdersTimer(tm) ==
    /\ tm \in timers /\ tm.feed = "workOrders"
    /\ nPolls + nListings < MaxPolls
    /\ workOrdersLoading' = (IF phase = "mounted" THEN TRUE ELSE workOrdersLoading)
    /\ workOrderNet' = CallFetchWorkOrders(workOrderNet, nListings)
    /\ nListings' = nListings + 1
    /\ UNCHANGED <<phase, selectedTarget, summary, forecastData, anomalyData,
                   importanceData, threshold, workOrders, timers, intervalId, summaryNet,
                   chartTicks, shown, nTicks, nPolls, nTimers, isStale, clock>>

\* fetchWorkOrders after its await, the request fulfilled with res.data = data
fetchWorkOrdersThen(r, data) ==
    /\ r \in workOrderNet
    /\ workOrderNet' = workOrderNet \ {r}
    /\ workOrders' = IF phase # "mounted" THEN workOrders
                     ELSE IF "items" \in data.defined THEN data.items ELSE <<>>
    /\ workOrdersLoading' = (IF phase = "mounted" THEN FALSE ELSE workOrdersLoading)
    /\ UNCHANGED <<phase, selectedTarget, summary, forecastData, anomalyData,
                   importanceData, threshold, timers, intervalId, summaryNet,
                   chartTicks, shown, nTicks, nPolls, nListings, nTimers, isStale, clock>>

\* fetchWorkOrders after its await, the request rejected
fetchWorkOrdersCatch(r) ==
    /\ r \in workOrderNet
    /\ workOrderNet' = workOrderNet \ {r}
    /\ workOrdersLoading' = (IF phase = "mounted" THEN FALSE ELSE workOrdersLoading)
    /\ UNCHANGED <<phase, selectedTarget, summary, forecastData, anomalyData,
                   importanceData, threshold, workOrders, timers, intervalId, summaryNet,
                   chartTicks, shown, nTicks, nPolls, nListings, nTimers, isStale, clock>>

\* the summary interval fires
SummaryTimer(tm) ==
    /\ tm \in timers /\ tm.feed = "summary"
    /\ nPolls + nListings < MaxPolls
    /\ summaryNet' = CallFetchSummary(summaryNet, nPolls)
    /\ nPolls' = nPolls + 1
    /\ UNCHANGED <<phase, selectedTarget, summary, forecastData, anomalyData,
                   importanceData, threshold, workOrders, workOrdersLoading, timers,
                   intervalId, workOrderNet, chartTicks, shown, nTicks, nListings,
                   nTimers, isStale, clock>>

\* the charts interval fires: fetchCharts of the render that set it
ChartsTimer(tm) ==
    /\ tm \in timers /\ tm.feed = "charts"
    /\ nTicks < MaxTicks
    /\ chartTicks' = CallFetchCharts(chartTicks, nTicks, tm.target)
    /\ nTicks' = nTicks + 1
    /\ UNCHANGED <<phase, selectedTarget, summary, forecastData, anomalyData,
                   importanceData, threshold, workOrders, workOrdersLoading, timers,
                   intervalId, summaryNet, workOrderNet, shown, nPolls, nListings,
                   nTimers, isStale, clock>>

\* variant: the charts effect re-run without the cleanup of its previous run
SelectMetricNoCleanup(key) ==
    /\ phase = "mounted" /\ summary # NoSummary
    /\ key \in summary.metrics /\ ~IsErrorFlagKey(key)
    /\ IF key = selectedTarget
       THEN UNCHANGED dashVars
       ELSE /\ nTicks < MaxTicks
            /\ selectedTarget' = key
            /\ chartTicks' = CallFetchCharts(chartTicks, nTicks, key)
            /\ nTicks' = nTicks + 1
            /\ timers' = CallSetInterval(timers, nTimers, "charts", key)
            /\ intervalId' = [intervalId EXCEPT !["charts"] = nTimers + 1]
            /\ nTimers' = nTimers + 1
            /\ UNCHANGED <<phase, summary, forecastData, anomalyData, importanceData,
                           threshold, workOrders, workOrdersLoading, summaryNet,
                           workOrderNet, shown, nPolls, nListings, isStale, clock>>

\* variant: the charts effect re-run setting its interval without calling fetchCharts
SelectMetricNoFetch(key) ==
    /\ phase = "mounted" /\ summary # NoSummary
    /\ key \in summary.metrics /\ ~IsErrorFlagKey(key)
    /\ IF key = selectedTarget
       THEN UNCHANGED dashVars
       ELSE /\ nTicks < MaxTicks
            /\ selectedTarget' = key
            /\ timers' = CallSetInterval(CallClearInterval(timers, intervalId["charts"]),
                                         nTimers, "charts", key)
            /\ intervalId' = [intervalId EXCEPT !["charts"] = nTimers + 1]
            /\ nTimers' = nTimers + 1
            /\ UNCHANGED <<phase, summary, forecastData, anomalyData, importanceData,
                           threshold, workOrders, workOrdersLoading, summaryNet,
                           workOrderNet, chartTicks, shown, nTicks, nPolls, nListings, isStale, clock>>

\* onClick of a metric tile: setSelectedTarget(key); a changed target re-runs the
\* charts effect (cleanup, fetchCharts, setInterval)
SelectMetric(key) ==
    /\ phase = "mounted" /\ summary # NoSummary
    /\ key \in summary.metrics /\ ~IsErrorFlagKey(key)
    /\ IF key = selectedTarget
       THEN UNCHANGED dashVars
       ELSE /\ nTicks < MaxTicks
            /\ selectedTarget' = key
            /\ chartTicks' = CallFetchCharts(chartTicks, nTicks, key)
            /\ nTicks' = nTicks + 1
            /\ timers' = CallSetInterval(CallClearInterval(timers, intervalId["charts"]),
                                         nTimers, "charts", key)
            /\ intervalId' = [intervalId EXCEPT !["charts"] = nTimers + 1]
            /\ nTimers' = nTimers + 1
            /\ UNCHANGED <<phase, summary, forecastData, anomalyData, importanceData,
                           threshold, workOrders, workOrdersLoading, summaryNet,
                           workOrderNet, shown, nPolls, nListings, isStale, clock>>

\* time passes: no code runs, new Date() returns a later time
Tick ==
    /\ clock < ClockStart + MaxClockSteps * ClockStep
    /\ clock' = clock + ClockStep
    /\ UNCHANGED <<phase, selectedTarget, summary, forecastData, anomalyData,
                   importanceData, threshold, workOrders, workOrdersLoading, isStale,
                   timers, intervalId, summaryNet, workOrderNet, chartTicks, shown,
                   nTicks, nPolls, nListings, nTimers>>

\* .then(res => setSummary(res.data)), the request answered with data, and the
\* render that follows, in which useMemo sees a new summary and recomputes isStale;
\* a setState of an unmounted component is dropped
fetchSummaryThen(r, data) ==
    /\ r \in summaryNet
    /\ summary' = IF phase = "mounted" THEN data ELSE summary
    /\ isStale' = IF phase = "mounted" THEN ComputeIsStale(data, clock) ELSE isStale
    /\ summaryNet' = summaryNet \ {r}
    /\ UNCHANGED <<phase, selectedTarget, forecastData, anomalyData, importanceData,
                   threshold, workOrders, workOrdersLoading, timers, intervalId,
                   workOrderNet, chartTicks, shown, nTicks, nPolls, nListings, nTimers, clock>>

\* .catch(err => console.error(...)), the request rejected
fetchSummaryCatch(r) ==
    /\ r \in summaryNet
    /\ summaryNet' = summaryNet \ {r}
    /\ UNCHANGED <<phase, selectedTarget, summary, forecastData, anomalyData,
                   importanceData, threshold, workOrders, workOrdersLoading, timers,
                   intervalId, workOrderNet, chartTicks, shown, nTicks, nPolls,
                   nListings, nTimers, isStale, clock>>

\* how far the try block of fetchCharts gets on a tick's responses before it throws:
\* "none" (no setter called), "forecast" (setForecastData called), "all"
Reached(forecastRes, anomalyRes) ==
    IF "history_x" \notin forecastRes.defined THEN "none"
    ELSE IF "scores" \notin anomalyRes.defined THEN "forecast"
    ELSE "all"

\* whether the completion of tick t applies its responses to the displayed state:
\* a setState of an unmounted component is dropped
Applies(t) == phase = "mounted"

\* fetchCharts after its await, the three requests fulfilled (Promise.all) with
\* the given replies
fetchChartsApply(t, forecastRes, anomalyRes, allImportance) ==
    /\ t \in chartTicks
    /\ chartTicks' = chartTicks \ {t}
    /\ LET setForecast == Applies(t) /\ Reached(forecastRes, anomalyRes) \in {"forecast", "all"}
           setAnomaly == Applies(t) /\ Reached(forecastRes, anomalyRes) = "all"
           setImportance == setAnomaly /\ t.target \in allImportance.metrics
       IN /\ forecastData' = IF setForecast THEN MergeSeries(forecastRes) ELSE forecastData
          /\ anomalyData' = IF setAnomaly THEN Anomalies(anomalyRes) ELSE anomalyData
          /\ threshold' = IF setAnomaly THEN anomalyRes.threshold ELSE threshold
          /\ importanceData' = IF setImportance
                               THEN TopFeatures(allImportance.list[t.target])
                               ELSE importanceData
          /\ shown' = [forecastRes |-> IF setForecast THEN forecastRes
                                        ELSE shown.forecastRes,
                       anomalyRes |-> IF setAnomaly THEN anomalyRes ELSE shown.anomalyRes,
                       forecast |-> IF setForecast THEN t ELSE shown.forecast,
                       anomaly |-> IF setAnomaly THEN t ELSE shown.anomaly,
                       threshold |-> IF setAnomaly THEN t ELSE shown.threshold,
                       importance |-> IF setImportance THEN t ELSE shown.importance]
    /\ UNCHANGED <<phase, selectedTarget, summary, workOrders, workOrdersLoading,
                   timers, intervalId, summaryNet, workOrderNet, nTicks, nPolls,
                   nListings, nTimers, isStale, clock>>

\* the completion with replies of version v and shape sh
fetchChartsThen(t, v, sh) ==
    fetchChartsApply(t, ForecastRes(t.target, v, sh), AnomalyRes(t.target, v, sh),
                     ImportanceRes(t.target, v, sh))

\* variant: the catch block blanking the forecast chart
fetchChartsCatchClearsForecast(t) ==
    /\ t \in chartTicks
    /\ chartTicks' = chartTicks \ {t}
    /\ forecastData' = <<>>
    /\ UNCHANGED <<phase, selectedTarget, summary, anomalyData,
                   importanceData, threshold, workOrders, workOrdersLoading, timers,
                   intervalId, summaryNet, workOrderNet, shown, nTicks, nPolls,
                   nListings, nTimers, isStale, clock>>

\* fetchCharts after its await, a request rejected: the catch logs
fetchChartsCatch(t) ==
    /\ t \in chartTicks
    /\ chartTicks' = chartTicks \ {t}
    /\ UNCHANGED <<phase, selectedTarget, summary, forecastData, anomalyData,
                   importanceData, threshold, workOrders, workOrdersLoading, timers,
                   intervalId, summaryNet, workOrderNet, shown, nTicks, nPolls,
                   nListings, nTimers, isStale, clock>>

---------------------------------------------------------------------------
(* Specifications: the two components share no state, each is checked alone *)

vars == <<chatVars, dashVars>>

Init == ChatInit /\ DashInit

Next ==
    \/ ToggleOpen /\ UNCHANGED dashVars
    \/ \E t \in Texts : TypeInput(t) /\ UNCHANGED dashVars
    \/ \E t \in Suggestions : ClickSuggestion(t) /\ UNCHANGED dashVars
    \/ PressEnter /\ UNCHANGED dashVars
    \/ ClickSend /\ UNCHANGED dashVars
    \/ ClickApprove /\ UNCHANGED dashVars
    \/ ClickDismiss /\ UNCHANGED dashVars
    \/ ClickNewChat /\ UNCHANGED dashVars
    \/ \E f \in Files \cup {NoFile} : SelectFile(f) /\ UNCHANGED dashVars
    \/ ClickRemoveImage /\ UNCHANGED dashVars
    \/ \E u \in uploads : readerOnload(u) /\ UNCHANGED dashVars
    \/ \E u \in uploads : readerOnerror(u) /\ UNCHANGED dashVars
    \/ \E u \in uploads, canvasOk \in BOOLEAN, img \in SampleImages :
          imgOnload(u, canvasOk, img) /\ UNCHANGED dashVars
    \/ \E u \in uploads : imgOnerror(u) /\ UNCHANGED dashVars
    \/ \E r \in chatNet, data \in ChatReplies : sendMessageThen(r, data) /\ UNCHANGED dashVars
    \/ \E r \in chatNet : sendMessageCatch(r) /\ UNCHANGED dashVars
    \/ \E r \in approveNet, data \in ApproveReplies :
          handleApproveThen(r, data) /\ UNCHANGED dashVars
    \/ \E r \in approveNet : handleApproveCatch(r) /\ UNCHANGED dashVars

Spec == Init /\ [][Next]_vars

NextDash ==
    \/ Mount /\ UNCHANGED chatVars
    \/ Unmount /\ UNCHANGED chatVars
    \/ \E tm \in timers : SummaryTimer(tm) /\ UNCHANGED chatVars
    \/ \E tm \in timers : ChartsTimer(tm) /\ UNCHANGED chatVars
    \/ \E key \in Metrics \cup {"z_rms_error_flag"} : SelectMetric(key) /\ UNCHANGED chatVars
    \/ \E r \in summaryNet, d \in Summaries : fetchSummaryThen(r, d) /\ UNCHANGED chatVars
    \/ \E r \in summaryNet : fetchSummaryCatch(r) /\ UNCHANGED chatVars
    \/ \E t \in chartTicks, v \in Versions, sh \in Shapes :
          fetchChartsThen(t, v, sh) /\ UNCHANGED chatVars
    \/ \E t \in chartTicks : fetchChartsCatch(t) /\ UNCHANGED chatVars
    \/ \E tm \in timers : WorkOrdersTimer(tm) /\ UNCHANGED chatVars
    \/ \E r \in workOrderNet, data \in WorkOrderReplies :
          fetchWorkOrdersThen(r, data) /\ UNCHANGED chatVars
    \/ \E r \in workOrderNet : fetchWorkOrdersCatch(r) /\ UNCHANGED chatVars

DashSpec == Init /\ [][NextDash]_vars

\* Either component up to and after its teardown.  The components share no state:
\* the Chatbot is explored while the Dashboard has not mounted, the Dashboard while
\* the Chatbot has not been touched.
NextTeardown ==
    \/ phase = "init" /\ ToggleOpen /\ UNCHANGED dashVars
    \/ phase = "init" /\ ChatUnmount /\ UNCHANGED dashVars
    \/ \E t \in Suggestions : ClickSuggestion(t) /\ UNCHANGED dashVars
    \/ ClickSend /\ UNCHANGED dashVars
    \/ ClickApprove /\ UNCHANGED dashVars
    \/ ClickNewChat /\ UNCHANGED dashVars
    \/ \E f \in Files \cup {NoFile} : SelectFile(f) /\ UNCHANGED dashVars
    \/ \E u \in uploads : readerOnload(u) /\ UNCHANGED dashVars
    \/ \E u \in uploads : readerOnerror(u) /\ UNCHANGED dashVars
    \/ \E u \in uploads, canvasOk \in BOOLEAN, img \in SampleImages :
          imgOnload(u, canvasOk, img) /\ UNCHANGED dashVars
    \/ \E u \in uploads : imgOnerror(u) /\ UNCHANGED dashVars
    \/ \E r \in chatNet, data \in ChatReplies : sendMessageThen(r, data) /\ UNCHANGED dashVars
    \/ \E r \in chatNet : sendMessageCatch(r) /\ UNCHANGED dashVars
    \/ \E r \in approveNet, data \in ApproveReplies :
          handleApproveThen(r, data) /\ UNCHANGED dashVars
    \/ \E r \in approveNet : handleApproveCatch(r) /\ UNCHANGED dashVars
    \/ ChatInit /\ Mount /\ UNCHANGED chatVars
    \/ Unmount /\ UNCHANGED chatVars
    \/ \E tm \in timers : SummaryTimer(tm) /\ UNCHANGED chatVars
    \/ \E tm \in timers : ChartsTimer(tm) /\ UNCHANGED chatVars
    \/ \E key \in Metrics \cup {"z_rms_error_flag"} : SelectMetric(key) /\ UNCHANGED chatVars
    \/ \E r \in summaryNet, d \in Summaries : fetchSummaryThen(r, d) /\ UNCHANGED chatVars
    \/ \E r \in summaryNet : fetchSummaryCatch(r) /\ UNCHANGED chatVars
    \/ \E t \in chartTicks, v \in Versions, sh \in Shapes :
          fetchChartsThen(t, v, sh) /\ UNCHANGED chatVars
    \/ \E t \in chartTicks : fetchChartsCatch(t) /\ UNCHANGED chatVars
    \/ \E tm \in timers : WorkOrdersTimer(tm) /\ UNCHANGED chatVars
    \/ \E r \in workOrderNet, data \in WorkOrderReplies :
          fetchWorkOrdersThen(r, data) /\ UNCHANGED chatVars
    \/ \E r \in workOrderNet : fetchWorkOrdersCatch(r) /\ UNCHANGED chatVars

TeardownSpec == Init /\ [][NextTeardown]_vars

\* The summary feed, the work-order feed and the staleness signal under a moving
\* clock, with summaries of every age; the chart requests issued at mount stay
\* pending.
NextStale ==
    \/ Mount /\ UNCHANGED chatVars
    \/ Unmount /\ UNCHANGED chatVars
    \/ Tick /\ UNCHANGED chatVars
    \/ \E tm \in timers : SummaryTimer(tm) /\ UNCHANGED chatVars
    \/ \E r \in summaryNet, d \in TimedSummaries(clock) :
          fetchSummaryThen(r, d) /\ UNCHANGED chatVars
    \/ \E r \in summaryNet : fetchSummaryCatch(r) /\ UNCHANGED chatVars
    \/ \E tm \in timers : WorkOrdersTimer(tm) /\ UNCHANGED chatVars
    \/ \E r \in workOrderNet, data \in WorkOrderReplies :
          fetchWorkOrdersThen(r, data) /\ UNCHANGED chatVars
    \/ \E r \in workOrderNet : fetchWorkOrdersCatch(r) /\ UNCHANGED chatVars

StaleSpec == Init /\ [][NextStale]_vars

\* The chart tick issued at mount, completed with replies of every content.
NextSeries ==
    \/ Mount /\ UNCHANGED chatVars
    \/ \E t \in chartTicks, f \in ForecastReplies :
          fetchChartsApply(t, f, AnomalyRes(t.target, 1, "ok"),
                           ImportanceRes(t.target, 1, "ok")) /\ UNCHANGED chatVars
    \/ \E t \in chartTicks, a \in AnomalyReplies :
          fetchChartsApply(t, ForecastRes(t.target, 1, "ok"), a,
                           ImportanceRes(t.target, 1, "ok")) /\ UNCHANGED chatVars
    \/ \E t \in chartTicks : fetchChartsCatch(t) /\ UNCHANGED chatVars

SeriesSpec == Init /\ [][NextSeries]_vars

\* The staging of an image, for files that decode to images of every size.
NextImage ==
    \/ ToggleOpen /\ UNCHANGED dashVars
    \/ \E f \in Files \cup {NoFile} : SelectFile(f) /\ UNCHANGED dashVars
    \/ ClickRemoveImage /\ UNCHANGED dashVars
    \/ \E u \in uploads : readerOnload(u) /\ UNCHANGED dashVars
    \/ \E u \in uploads : readerOnerror(u) /\ UNCHANGED dashVars
    \/ \E u \in uploads, canvasOk \in BOOLEAN, img \in Images :
          imgOnload(u, canvasOk, img) /\ UNCHANGED dashVars
    \/ \E u \in uploads : imgOnerror(u) /\ UNCHANGED dashVars

ImageSpec == Init /\ [][NextImage]_vars

\* The approval of a draft next to the work-order feed of the Dashboard.  The
\* interval set at mount keeps firing for as long as the Dashboard is mounted,
\* which is the fairness of the work-order timer.
NextApproval ==
    \/ ToggleOpen /\ UNCHANGED dashVars
    \/ \E t \in Suggestions : ClickSuggestion(t) /\ UNCHANGED dashVars
    \/ ClickSend /\ UNCHANGED dashVars
    \/ ClickApprove /\ UNCHANGED dashVars
    \/ \E r \in chatNet, data \in ChatReplies : sendMessageThen(r, data) /\ UNCHANGED dashVars
    \/ \E r \in approveNet, data \in ApproveReplies :
          handleApproveThen(r, data) /\ UNCHANGED dashVars
    \/ \E r \in approveNet : handleApproveCatch(r) /\ UNCHANGED dashVars
    \/ Mount /\ UNCHANGED chatVars
    \/ Unmount /\ UNCHANGED chatVars
    \/ \E tm \in timers : WorkOrdersTimer(tm) /\ UNCHANGED chatVars
    \/ \E r \in workOrderNet, data \in WorkOrderReplies :
          fetchWorkOrdersThen(r, data) /\ UNCHANGED chatVars
    \/ \E r \in workOrderNet : fetchWorkOrdersCatch(r) /\ UNCHANGED chatVars

ApprovalSpec ==
    /\ Init /\ [][NextApproval]_vars
    /\ WF_vars(\E tm \in timers : WorkOrdersTimer(tm) /\ UNCHANGED chatVars)

\* The Chatbot with every file selected in the first session before anything is
\* sent, so that a reset or a send finds the uploads started before it in flight.
NextUploadRace ==
    \/ ToggleOpen /\ UNCHANGED dashVars
    \/ \E t \in Texts : TypeInput(t) /\ UNCHANGED dashVars
    \/ \E t \in Suggestions : ClickSuggestion(t) /\ UNCHANGED dashVars
    \/ ClickSend /\ UNCHANGED dashVars
    \/ ClickNewChat /\ UNCHANGED dashVars
    \/ \E f \in Files :
          sessionId = 0 /\ nCalls = 0 /\ SelectFile(f) /\ UNCHANGED dashVars
    \/ ClickRemoveImage /\ UNCHANGED dashVars
    \/ \E u \in uploads : readerOnload(u) /\ UNCHANGED dashVars
    \/ \E u \in uploads, canvasOk \in BOOLEAN, img \in SampleImages :
          imgOnload(u, canvasOk, img) /\ UNCHANGED dashVars
    \/ \E r \in chatNet, data \in ChatReplies : sendMessageThen(r, data) /\ UNCHANGED dashVars
    \/ \E r \in chatNet : sendMessageCatch(r) /\ UNCHANGED dashVars

UploadRaceSpec == Init /\ [][NextUploadRace]_vars

---------------------------------------------------------------------------
(* Properties of the Chatbot (checked under Spec) *)

\* C1: whenever a fulfilled chat request carries draft content, the draft becomes
\* exactly that content, whatever draft was shown before (replacement, no merge);
\* so of two successive replies with drafts only the second draft is retained.
C1_DraftReplaced ==
    [][\A r \in chatNet, data \in ChatReplies :
          (sendMessageThen(r, data) /\ data.draft # NoDraft) => draft' = data.draft]_vars

\* C1 witness: a draft from an earlier reply is shown, a chat request is in flight,
\* and its reply can carry the other draft and be applied.
C1_Witness ==
    /\ draft = "d1"
    /\ \E r \in chatNet :
          ENABLED (sendMessageThen(r, [response |-> <<"r">>, draft |-> "d2"])
                   /\ UNCHANGED dashVars /\ draft' = "d2")

\* the approve button is rendered and enabled
CanApprove == DraftPanelShown /\ ~ApproveDisabled

\* C2: a rejected approval request leaves the draft, the session id and the
\* transcript as they were and clears the loading flag, so that with the draft
\* panel open the approve button is enabled again for the same session id.
C2_ApproveFailureKeepsDraft ==
    [][\A r \in approveNet :
          handleApproveCatch(r) =>
             /\ draft' = draft
             /\ sessionId' = sessionId
             /\ messages' = messages
             /\ loading' = FALSE
             /\ (DraftPanelShown => CanApprove')]_vars

\* C2 witness: no reset; call 1 was a chat whose reply brought the draft, call 2 an
\* approval that was rejected (it left no message); the draft is still there and
\* Approve can be clicked again.
C2_Witness ==
    /\ sessionId = 0 /\ nCalls = 2 /\ Len(messages) = 2
    /\ chatNet = {} /\ approveNet = {}
    /\ draft # NoDraft /\ CanApprove

\* C3: a fulfilled approval request clears the draft and appends exactly one
\* assistant message, whose content contains the work_order_id of the reply.
C3_ApproveSuccess ==
    [][\A r \in approveNet, data \in ApproveReplies :
          handleApproveThen(r, data) =>
             /\ draft' = NoDraft
             /\ Len(messages') = Len(messages) + 1
             /\ SubSeq(messages', 1, Len(messages)) = messages
             /\ messages'[Len(messages')].role = "ai"
             /\ \E k \in 1..Len(messages'[Len(messages')].content) :
                   messages'[Len(messages')].content[k] = data.work_order_id]_vars

\* C3 witness: the last message is the confirmation of WO-2 and no draft is shown.
C3_Witness ==
    /\ Len(messages) > 0
    /\ messages[Len(messages)].content = SuccessText("WO-2")
    /\ draft = NoDraft

\* C4: invoked with input that is empty after trimming and an image staged,
\* sendMessage appends a user message and issues one chat request whose message
\* is the default prompt and whose image is the staged image.
C4_ImageOnlySend ==
    (~Truthy(Trim(input)) /\ imageBase64 # NoImage /\ nCalls < MaxCalls) =>
        ENABLED (/\ sendMessage
                 /\ UNCHANGED dashVars
                 /\ Len(messages') = Len(messages) + 1
                 /\ messages'[Len(messages')].role = "user"
                 /\ \E r \in chatNet' \ chatNet :
                       r.message = DefaultPrompt /\ r.image_base64 = imageBase64)

\* C5: invoked with input that is empty after trimming and no image staged,
\* sendMessage changes nothing: no step of it appends a message, issues a request
\* or changes input, draft, loading or the session id.
C5_EmptySendNoOp ==
    (~Truthy(Trim(input)) /\ imageBase64 = NoImage) =>
        ~ENABLED <<sendMessage /\ UNCHANGED dashVars>>_vars

\* C5 witness: the panel is open, the input holds only a blank, no image is
\* staged and the input is enabled, so Enter invokes sendMessage.
C5_Witness ==
    /\ ChatPanelShown /\ ~InputDisabled
    /\ input = <<" ">> /\ imageBase64 = NoImage
    /\ nCalls < MaxCalls

\* C6: a rejected chat request appends exactly one assistant error message and
\* leaves the draft as it was: the failure step does not touch it, and in the
\* session the request was sent in it is still the draft shown at the send.
C6_ChatFailure ==
    [][\A r \in chatNet :
          sendMessageCatch(r) =>
             /\ messages' = Append(messages, Message("ai", ErrorText, NoImage, r.call))
             /\ draft' = draft
             /\ (r.session_id = sessionId => draft' = r.draftAtSend)]_vars

\* C6 witness: the last message is the error message and a draft is still shown.
C6_Witness ==
    /\ Len(messages) > 0
    /\ messages[Len(messages)].content = ErrorText
    /\ draft # NoDraft

\* C7: the step that completes a chat or approval request, fulfilled or rejected,
\* clears the loading flag, and the flag is never set with no request in flight.
C7_LoadingCleared ==
    /\ [][(chatNet' # chatNet /\ chatNet' \subseteq chatNet) \/
          (approveNet' # approveNet /\ approveNet' \subseteq approveNet)
          => loading' = FALSE]_vars
    /\ [](loading => chatNet # {} \/ approveNet # {})

\* C7 witness: a chat request was rejected (error message last) and the flag is clear.
C7_Witness ==
    /\ Len(messages) > 0
    /\ messages[Len(messages)].content = ErrorText
    /\ ~loading /\ chatNet = {} /\ approveNet = {}

\* a message appended by sendMessage (not the confirmation of an approval)
IsChatMessage(m) == m.role = "user" \/ m.content = ErrorText \/ m.content \in ResponseTexts

\* C8: the transcript holds the chat messages in call order: a message of an
\* earlier sendMessage call never follows one of a later call, and within a call
\* the user message precedes the reply.
C8_CallOrder ==
    \A i, j \in 1..Len(messages) :
        (i < j /\ IsChatMessage(messages[i]) /\ IsChatMessage(messages[j])) =>
            /\ messages[i].call <= messages[j].call
            /\ (messages[i].call = messages[j].call =>
                   messages[i].role = "user" /\ messages[j].role = "ai")

\* C8 witness: user message and reply of one call followed by those of a later call.
C8_Witness ==
    /\ Len(messages) = 4
    /\ messages[1].role = "user" /\ messages[2].role = "ai"
    /\ messages[3].role = "user" /\ messages[4].role = "ai"
    /\ messages[2].call < messages[3].call

\* C9: at most one chat request is in flight at any time.
C9_OneChatInFlight == Cardinality(chatNet) <= 1

\* C9 witness: a second chat request is in flight after the first was answered.
C9_Witness ==
    /\ Cardinality(chatNet) = 1
    /\ Len(messages) = 3
    /\ messages[2].role = "ai" /\ messages[3].role = "user"

---------------------------------------------------------------------------
(* Properties of the Dashboard (checked under DashSpec) *)

ChartStates == {"forecast", "anomaly", "threshold", "importance"}

\* C10: a displayed chart state computed from one tick is never overwritten by the
\* completion of an older tick for the same metric.
C10_TickDiscard ==
    [][\A f \in ChartStates :
          shown'[f].target = shown[f].target => shown'[f].id >= shown[f].id]_vars

\* C11: no partial apply of a chart tick.  The displayed forecast series, anomaly
\* series, threshold and importance list that were computed from some tick were
\* all computed from one and the same tick.
C11_NoPartialApply ==
    \A f, g \in ChartStates :
        (shown[f] # NoTick /\ shown[g] # NoTick) => shown[f] = shown[g]

\* the requests of the three feeds that are in flight
InFlight == [summary |-> summaryNet, charts |-> chartTicks, workOrders |-> workOrderNet]

\* C12: a rejected fetch of the summary, of a chart tick or of the work-order list
\* leaves the corresponding snapshot as it was, starts no request and touches no
\* timer.
C12_FailedFetchKeepsSnapshot ==
    [][/\ (\E r \in summaryNet : fetchSummaryCatch(r)) =>
             /\ summary' = summary
             /\ \A feed \in DOMAIN InFlight : InFlight'[feed] \subseteq InFlight[feed]
             /\ timers' = timers
       /\ (\E t \in chartTicks : fetchChartsCatch(t)) =>
             /\ <<forecastData, anomalyData, threshold, importanceData>>' =
                   <<forecastData, anomalyData, threshold, importanceData>>
             /\ \A feed \in DOMAIN InFlight : InFlight'[feed] \subseteq InFlight[feed]
             /\ timers' = timers
       /\ (\E r \in workOrderNet : fetchWorkOrdersCatch(r)) =>
             /\ workOrders' = workOrders
             /\ \A feed \in DOMAIN InFlight : InFlight'[feed] \subseteq InFlight[feed]
             /\ timers' = timers]_vars

\* C12 witness: a summary and the charts of tick 1 are displayed while a second
\* summary request and tick 2 are in flight, and both can be rejected.
C12_Witness ==
    /\ summary # NoSummary
    /\ shown.forecast.id = 1 /\ forecastData # <<>>
    /\ \E r \in summaryNet : ENABLED (fetchSummaryCatch(r) /\ UNCHANGED chatVars)
    /\ \E t \in chartTicks : t.id = 2 /\ ENABLED (fetchChartsCatch(t) /\ UNCHANGED chatVars)

\* the intervals of one feed that are set and not cleared
TimersOf(feed) == {tm \in timers : tm.feed = feed}

\* C13: selecting a different metric starts, in the same step, a fetchCharts for the
\* newly selected metric, and leaves the summary feed alone: its interval is neither
\* cleared nor replaced nor doubled and no summary request is started.
C13_SelectMetricRefetches ==
    [][\A key \in Metrics :
          (SelectMetric(key) /\ key # selectedTarget) =>
             /\ selectedTarget' = key
             /\ \E t \in chartTicks' \ chartTicks : t.target = key
             /\ TimersOf("summary")' = TimersOf("summary")
             /\ intervalId'["summary"] = intervalId["summary"]
             /\ summaryNet' = summaryNet /\ nPolls' = nPolls]_vars

\* C13 witness: x_rms has been selected, its tick is in flight and the summary
\* interval set at mount is still the only summary interval.
C13_Witness ==
    /\ selectedTarget = "x_rms"
    /\ \E t \in chartTicks : t.target = "x_rms"
    /\ TimersOf("summary") = {[id |-> 1, feed |-> "summary", target |-> "z_rms"]}
    /\ TimersOf("charts") = {[id |-> 4, feed |-> "charts", target |-> "x_rms"]}

\* C14: resetChat empties the transcript, the draft, the input and the staged
\* image, replaces the session id by a newly generated one and issues no request.
C14_ResetSession ==
    [][resetChat =>
          /\ messages' = <<>> /\ draft' = NoDraft /\ input' = <<>>
          /\ imageFile' = NoFile /\ imageBase64' = NoImage
          /\ sessionId' > sessionId
          /\ chatNet' = chatNet /\ approveNet' = approveNet /\ nCalls' = nCalls]_vars

\* C14 witness: a transcript, a draft, a typed input and a staged image are all
\* present, and New Chat can be clicked and clears them under a new session id.
C14_Witness ==
    /\ messages # <<>> /\ draft # NoDraft /\ input # <<>> /\ imageBase64 # NoImage
    /\ ENABLED (ClickNewChat /\ UNCHANGED dashVars /\ messages' = <<>>
                /\ draft' = NoDraft /\ imageBase64' = NoImage /\ sessionId' = 1)

\* C15: the Close button of the draft panel empties the draft in the click itself,
\* issues no request and leaves transcript, session id, input and staged image
\* as they were.
C15_DismissDraft ==
    [][ClickDismiss =>
          /\ draft' = NoDraft
          /\ chatNet' = chatNet /\ approveNet' = approveNet /\ loading' = loading
          /\ messages' = messages /\ sessionId' = sessionId /\ input' = input
          /\ imageFile' = imageFile /\ imageBase64' = imageBase64]_vars

\* C15 witness: a draft is shown next to a transcript, a typed input and a staged
\* image, and the Close button can be clicked and empties the draft.
C15_Witness ==
    /\ messages # <<>> /\ draft # NoDraft /\ input # <<>> /\ imageBase64 # NoImage
    /\ ENABLED (ClickDismiss /\ UNCHANGED dashVars /\ draft' = NoDraft)

\* C16: a sendMessage that passes its guard appends the user message, empties the
\* input and the staged image, sets loading and issues exactly one chat request,
\* which carries the trimmed text, the session id and the staged image of the
\* moment of the call; loading stays set for as long as the request is in flight.
C16_SendIssuesOneRequest ==
    /\ [][(sendMessage /\ SendGuard) =>
             /\ messages' = Append(messages, Message("user", input, imageBase64,
                                                     nCalls + 1))
             /\ input' = <<>> /\ imageFile' = NoFile /\ imageBase64' = NoImage
             /\ loading' = TRUE
             /\ chatNet \subseteq chatNet' /\ approveNet' = approveNet
             /\ Cardinality(chatNet' \ chatNet) = 1
             /\ \A r \in chatNet' \ chatNet :
                   /\ r.message = Trim(input)
                   /\ r.session_id = sessionId
                   /\ r.image_base64 = imageBase64]_vars
    /\ [](chatNet # {} => loading)

\* C16 witness: after a reset, the input " a" was sent with a staged image; the
\* request in flight carries "a", session 1 and the image, and the form is cleared.
C16_Witness ==
    /\ loading /\ input = <<>> /\ imageBase64 = NoImage /\ imageFile = NoFile
    /\ messages # <<>> /\ messages[Len(messages)].role = "user"
    /\ messages[Len(messages)].content = <<" ", "a">>
    /\ \E r \in chatNet : /\ r.message = <<"a">>
                          /\ r.session_id = 1
                          /\ r.image_base64 # NoImage
                          /\ r.image_base64 = messages[Len(messages)].image

\* C17: an approval request is issued only while a draft is present.
C17_ApproveNeedsDraft ==
    [][approveNet' \ approveNet # {} => draft # NoDraft]_vars

\* C17 witness: an approval request is in flight and the draft it approves is shown.
C17_Witness ==
    /\ approveNet # {} /\ loading /\ draft # NoDraft
    /\ \A r \in approveNet : r.session_id = sessionId

\* C18: once the dashboard is torn down no interval of the summary, charts or
\* work-order feed is left set, and no step after the teardown starts a fetch.
C18_TeardownCancelsTimers ==
    /\ [](phase = "unmounted" => timers = {})
    /\ [][phase = "unmounted" =>
             /\ \A feed \in DOMAIN InFlight : InFlight'[feed] \subseteq InFlight[feed]
             /\ <<nTicks, nPolls, nListings, nTimers>>' =
                   <<nTicks, nPolls, nListings, nTimers>>]_vars

\* C18 witness: the dashboard was torn down after a metric switch had replaced the
\* charts interval, with polls still to come had the intervals stayed set.
C18_Witness ==
    /\ phase = "unmounted" /\ timers = {}
    /\ nTimers = 4 /\ selectedTarget = "x_rms"
    /\ nPolls + nListings < MaxPolls

C20_StaleOver30Minutes ==
    [][\A r \in summaryNet, d \in TimedSummaries(clock) :
          (fetchSummaryThen(r, d) /\ phase = "mounted") =>
             isStale' = (/\ d.data_timestamp \notin {Null, Unparseable}
                         /\ clock - d.data_timestamp > 30 * 60000)]_vars

\* the Dashboard state whose change makes the component render again
RenderState == <<selectedTarget, summary, forecastData, anomalyData, importanceData,
                 threshold, workOrders, workOrdersLoading>>

\* C21: the stale signal is not cached.  In every render of the mounted Dashboard
\* it is the value of the staleness function for the displayed summary at the
\* wall-clock time of that render.
C21_StaleRecomputedEachRender ==
    [][(RenderState' # RenderState /\ phase' = "mounted") =>
          isStale' = ComputeIsStale(summary', clock')]_vars

---------------------------------------------------------------------------
(* Properties of the chart series (checked under SeriesSpec) *)

\* the forecast response the displayed line chart was computed from, once one was
\* applied, and whether its value arrays are as long as its timestamp arrays
LineChartApplied == shown.forecast # NoTick
LengthsMatch(res) ==
    /\ Len(res.history_y) = Len(res.history_x)
    /\ Len(res.forecast_y) = Len(res.forecast_x)

\* C22: for a forecast response whose value arrays are as long as its timestamp
\* arrays, the merged series has len(history) + len(forecast) points, the history
\* points first and each part in the order of the response; a history point has a
\* null forecast channel, a forecast point null observed and error channels.
C22_MergedSeries ==
    (LineChartApplied /\ LengthsMatch(shown.forecastRes)) =>
        LET res == shown.forecastRes
            nh == Len(res.history_x)
            nf == Len(res.forecast_x)
        IN /\ Len(forecastData) = nh + nf
           /\ \A i \in 1..nh :
                 /\ forecastData[i].time = res.history_x[i].hhmm
                 /\ forecastData[i].history = res.history_y[i]
                 /\ forecastData[i].forecast = Null
           /\ \A j \in 1..nf :
                 /\ forecastData[nh + j].time = res.forecast_x[j].hhmm
                 /\ forecastData[nh + j].forecast = res.forecast_y[j]
                 /\ forecastData[nh + j].history = Null
                 /\ forecastData[nh + j].history_error = Null

\* C22 witness: a response with two history and two forecast points, the value
\* arrays as long, was applied and four points are displayed.
C22_Witness ==
    /\ LineChartApplied /\ LengthsMatch(shown.forecastRes)
    /\ Len(shown.forecastRes.history_x) = 2 /\ Len(shown.forecastRes.forecast_x) = 2
    /\ Len(forecastData) = 4

---------------------------------------------------------------------------
(* Properties of the anomaly charts (checked under DashSpec) *)

\* the fill of a scatter cell: red when the point's score is below the threshold
\* state
CellIsRed(entry) == entry.score < threshold

\* C23: a displayed anomaly point is classified Anomaly exactly when its score is
\* below the threshold of the response the point came with, and the displayed
\* threshold is the threshold of that same response, so that the red cells are
\* the points classified Anomaly.
C23_ThresholdOfSameResponse ==
    /\ shown.anomaly = shown.threshold
    /\ shown.anomaly # NoTick =>
          /\ threshold = shown.anomalyRes.threshold
          /\ Len(anomalyData) = Len(shown.anomalyRes.scores)
          /\ \A i \in 1..Len(anomalyData) :
                /\ anomalyData[i].score = shown.anomalyRes.scores[i]
                /\ anomalyData[i].status \in {"Anomaly", "Normal"}
                /\ anomalyData[i].status = "Anomaly" <=>
                      anomalyData[i].score < shown.anomalyRes.threshold
                /\ CellIsRed(anomalyData[i]) <=> anomalyData[i].status = "Anomaly"

\* C23 witness: the second tick replaced the anomaly series of the first; its
\* point, with score 1 under threshold 2, is classified Anomaly.
C23_Witness ==
    /\ shown.anomaly.id = 2 /\ chartTicks = {}
    /\ threshold = 2
    /\ Len(anomalyData) = 1 /\ anomalyData[1].status = "Anomaly"

---------------------------------------------------------------------------
(* Properties of the image staging (checked under ImageSpec) *)

Longest(size) == IF size.width > size.height THEN size.width ELSE size.height

\* edge `out` is edge `in` scaled by MAX_DIMENSION / longest, as a whole number of
\* pixels: the scaled edge itself when that is whole, else one of its neighbours
ScaledEdge(out, in, longest) ==
    /\ out * longest - in * MAX_DIMENSION < longest
    /\ in * MAX_DIMENSION - out * longest < longest

\* C24: the image staged by the canvas path for a file decoded to w x h has its
\* longest edge at most 1024 and the aspect ratio of the input: both edges are the
\* input's edges scaled by 1024 / max(w, h) when max(w, h) > 1024, and the input's
\* edges otherwise.
C24_ResizeKeepsAspectRatio ==
    [][\A u \in uploads, img \in Images :
          (imgOnload(u, TRUE, img) /\ chatPhase = "mounted") =>
             /\ Longest(imageBase64') <= MAX_DIMENSION
             /\ IF Longest(img) > MAX_DIMENSION
                THEN /\ ScaledEdge(imageBase64'.width, img.width, Longest(img))
                     /\ ScaledEdge(imageBase64'.height, img.height, Longest(img))
                ELSE /\ imageBase64'.width = img.width
                     /\ imageBase64'.height = img.height]_vars

---------------------------------------------------------------------------
(* Properties of approval and work-order feed together (checked under        *)
(* ApprovalSpec)                                                             *)

\* an approval has succeeded: its confirmation is in the transcript
Approved ==
    \E i \in 1..Len(messages), id \in WorkOrderIds : messages[i].content = SuccessText(id)

\* C26: a fulfilled approval starts no work-order fetch and leaves the
\* Dashboard's work-order list as it is; a work-order request is started only by
\* the mount or by the 60-second interval, and the list changes only when such a
\* request is fulfilled; and once an approval has succeeded, the interval of the
\* mounted Dashboard eventually starts a further work-order request.
C26_ApprovalReflectedByNextPoll ==
    /\ [][\A r \in approveNet, data \in ApproveReplies :
             handleApproveThen(r, data) =>
                /\ workOrderNet' = workOrderNet /\ nListings' = nListings
                /\ workOrders' = workOrders]_vars
    /\ [][workOrderNet' \ workOrderNet # {} =>
             Mount \/ \E tm \in timers : WorkOrdersTimer(tm)]_vars
    /\ [][workOrders' # workOrders =>
             \E r \in workOrderNet, data \in WorkOrderReplies :
                fetchWorkOrdersThen(r, data)]_vars
    /\ \A n \in 0..MaxPolls :
          (Approved /\ phase = "mounted" /\ nListings = n /\ nPolls + nListings < MaxPolls)
             ~> (nListings > n \/ phase = "unmounted")

\* C26 witness: an approval has succeeded while the Dashboard is mounted with the
\* mount's listing displayed; no work-order request is in flight, and the interval
\* can fire and start the next one.
C26_Witness ==
    /\ Approved /\ phase = "mounted"
    /\ workOrders # <<>> /\ workOrderNet = {} /\ nListings = 1
    /\ \E tm \in timers : ENABLED (WorkOrdersTimer(tm) /\ UNCHANGED chatVars)

---------------------------------------------------------------------------
(* Further properties of the Chatbot (checked under Spec) *)

\* C27: between resets the transcript is append-only.  Every step other than
\* resetChat keeps the messages already in the transcript, unmodified and in their
\* order, as a prefix of the new transcript.
C27_TranscriptAppendOnly ==
    [][resetChat \/ /\ Len(messages') >= Len(messages)
                    /\ SubSeq(messages', 1, Len(messages)) = messages]_vars

\* C27 witness: the transcript holds the user message and the reply of a chat call
\* followed by the confirmation of an approval, appended one after the other.
C27_Witness ==
    /\ Len(messages) = 3
    /\ messages[1].role = "user" /\ messages[2].content \in ResponseTexts
    /\ messages[3].content \in {SuccessText(id) : id \in WorkOrderIds}

---------------------------------------------------------------------------
(* Further properties of the chart series (checked under SeriesSpec) *)

\* the error flag the response carries for history index i, if any
HasFlag(res, i) == "history_flags" \in res.defined /\ i \in 1..Len(res.history_flags)

\* C28: for every history point that has a value, the observed channel carries the
\* value, and the error-overlay channel carries the same value when the flag of
\* that index is true and null when the flag is false, when the flags array has
\* no entry for the index, and when the response has no history_flags.
C28_ErrorOverlay ==
    LineChartApplied =>
        LET res == shown.forecastRes
        IN \A i \in 1..Len(res.history_x) :
              i <= Len(res.history_y) =>
                 /\ forecastData[i].history = res.history_y[i]
                 /\ forecastData[i].history_error =
                       IF HasFlag(res, i) /\ res.history_flags[i]
                       THEN res.history_y[i] ELSE Null

\* C28 witness: two history points with values and a flags array holding only a
\* true flag for the first: the first point carries its value on the overlay, the
\* second, whose flag is missing, carries null.
C28_Witness ==
    /\ LineChartApplied
    /\ Len(shown.forecastRes.history_x) = 2 /\ Len(shown.forecastRes.history_y) = 2
    /\ "history_flags" \in shown.forecastRes.defined
    /\ shown.forecastRes.history_flags = <<TRUE>>
    /\ forecastData[1].history_error = forecastData[1].history
    /\ forecastData[1].history # Null
    /\ forecastData[2].history_error = Null

\* C29: a point whose value array has no entry at its index gets the fallback
\* value 0: a history point beyond the end of history_y, a forecast point beyond
\* the end of forecast_y, an anomaly point beyond the end of raw_values or of a
\* response without raw_values.
C29_MissingValueIsZero ==
    /\ LineChartApplied =>
          LET res == shown.forecastRes
              nh == Len(res.history_x)
          IN /\ \A i \in 1..nh :
                   i > Len(res.history_y) => forecastData[i].history = 0
             /\ \A j \in 1..Len(res.forecast_x) :
                   j > Len(res.forecast_y) => forecastData[nh + j].forecast = 0
    /\ shown.anomaly # NoTick =>
          LET res == shown.anomalyRes
          IN \A i \in 1..Len(res.scores) :
                ("raw_values" \notin res.defined \/ i > Len(res.raw_values)) =>
                    anomalyData[i].rawValue = 0

\* C30: the chat request and the approval request are addressed to the configured
\* base API URL, the value of API_URL, followed by the path of their endpoint.
C30_RequestsUseApiUrl ==
    /\ \A r \in chatNet : r.url[1] \in ApiUrls /\ r.url[2] = "/api/chat"
    /\ \A r \in approveNet : r.url[1] \in ApiUrls /\ r.url[2] = "/api/work_orders/approve"

\* C31: after a reset every message of the transcript belongs to the new session.
\* The completion of a chat request or of an approval request that was issued
\* under an earlier session id appends nothing to the transcript.
C31_StaleReplyNotAppended ==
    [][/\ \A r \in chatNet :
             (r \notin chatNet' /\ r.session_id # sessionId) => messages' = messages
       /\ \A r \in approveNet :
             (r \notin approveNet' /\ r.session_id # sessionId) => messages' = messages]_vars

\* C32: a draft that is present was returned by a chat request that carried the
\* current session id.  The reply to a request of an earlier session does not set
\* the draft, so an approval sends the session id the displayed draft was
\* produced under.
C32_DraftOfCurrentSession ==
    [][\A r \in chatNet :
          (r \notin chatNet' /\ r.session_id # sessionId) => draft' = draft]_vars

---------------------------------------------------------------------------
(* Further properties of the Dashboard (checked under DashSpec) *)

\* C33: the completion of a chart tick that was requested for a metric other than
\* the one now selected leaves the displayed forecast series, anomaly series and
\* threshold as they are, so that the displayed data is never that of a
\* previously selected metric's late response.
C33_LateResponseOfOldMetricIgnored ==
    [][\A t \in chartTicks :
          (t \notin chartTicks' /\ t.target # selectedTarget) =>
             /\ <<forecastData, anomalyData, threshold>>' =
                   <<forecastData, anomalyData, threshold>>
             /\ shown' = shown]_vars

---------------------------------------------------------------------------
(* Further properties of the Chatbot's requests (checked under Spec) *)

\* C34: a chat request and an approval request are never in flight together, and
\* at most one approval request is in flight at any time; while a request is in
\* flight the loading flag is set.
C34_OneRequestInFlight ==
    /\ ~(chatNet # {} /\ approveNet # {})
    /\ Cardinality(approveNet) <= 1
    /\ (chatNet # {} \/ approveNet # {}) => loading

\* C34 witness: an approval request is in flight, after a chat request that brought
\* the draft has completed, and neither Send nor Approve can start another request.
C34_Witness ==
    /\ Cardinality(approveNet) = 1 /\ chatNet = {} /\ loading
    /\ Len(messages) >= 2
    /\ ~ENABLED (ClickApprove /\ UNCHANGED dashVars)
    /\ ~ENABLED (ClickSend /\ UNCHANGED dashVars)

---------------------------------------------------------------------------
(* Further properties of the staged image (checked under UploadRaceSpec) *)

\* a reset or a send has happened; under UploadRaceSpec, where files are selected
\* before the first of them, every upload in flight was then selected before it
ClearedSince ==
    \/ sessionId # 0
    \/ \E i \in DOMAIN messages : messages[i].role = "user"

\* C35: after sendMessage or resetChat has cleared the staged image it stays absent
\* until a file selected afterwards is decoded: an upload started before the send
\* or the reset that finishes decoding afterwards stages nothing, and of two
\* overlapping uploads the earlier one never replaces the image of the later one.
C35_LateUploadNotStaged ==
    [][\A u \in uploads :
          (/\ u.stage = "decoding" /\ u \notin uploads'
           /\ \/ ClearedSince
              \/ u.id < nUploads /\ \A v \in uploads : v.id <= u.id) =>
             <<imageFile, imageBase64>>' = <<imageFile, imageBase64>>]_vars

---------------------------------------------------------------------------
(* Further properties of the Dashboard's intervals (checked under DashSpec) *)

Feeds == {"summary", "charts", "workOrders"}

\* C36: at most one interval per feed is set at any time; while the dashboard is
\* mounted each feed has exactly the interval its effect set last, and the charts
\* interval is the one of the selected metric, so that changing the metric clears
\* the previous charts interval before the new one is set.
C36_OneTimerPerFeed ==
    /\ \A feed \in Feeds : Cardinality(TimersOf(feed)) <= 1
    /\ phase = "mounted" =>
          /\ \A feed \in Feeds : \E tm \in timers : tm.feed = feed /\ tm.id = intervalId[feed]
          /\ \A tm \in TimersOf("charts") : tm.target = selectedTarget

\* C36 witness: the metric was changed while the dashboard is mounted: the fourth
\* interval ever set is the charts interval, next to the summary and work-order
\* intervals set at mount.
C36_Witness ==
    /\ phase = "mounted" /\ selectedTarget # "z_rms"
    /\ nTimers = 4 /\ Cardinality(timers) = 3
    /\ {tm.id : tm \in timers} = {1, 3, 4}

===========================================================================
